---------------------------- MODULE Spec2Model ----------------------------
(***************************************************************************)
(* A model of the tls_explore serialization engine: the three traits       *)
(* TlsLength / TlsToNetworkBytes / TlsFromNetworkBytes over scalars,       *)
(* tagged enumerations, fixed-size arrays, Option, VariableLengthVector    *)
(* and derived structures, driven by a caller that owns one instance to    *)
(* encode (x), one destination to decode into (y), one output buffer (v)   *)
(* and one cursor (cur).                                                   *)
(***************************************************************************)
EXTENDS Integers, Sequences, FiniteSets, TLC

(***************************************************************************)
(* Bounds of the model.                                                    *)
(***************************************************************************)
\* how many times the caller encodes x into the same buffer
MaxEncodes == 2
\* how many times the caller decodes into the same destination
MaxDecodes == 2

(***************************************************************************)
(* Type descriptors.  Every codec-capable type is a record of one shape:   *)
(*   k    : the kind                                                       *)
(*   name : the enumeration's or structure's name                          *)
(*   n    : N of [T; N]                                                    *)
(*   min, bytes : MIN and BYTES of VariableLengthVector<T, MIN, BYTES>     *)
(*   sub  : the element type (one entry) or the field types, in order      *)
(***************************************************************************)
Ty(k, name, n, min, bytes, sub) ==
    [k |-> k, name |-> name, n |-> n, min |-> min, bytes |-> bytes, sub |-> sub]

U8  == Ty("u8", "", 0, 0, 0, <<>>)
U16 == Ty("u16", "", 0, 0, 0, <<>>)
U32 == Ty("u32", "", 0, 0, 0, <<>>)
EnumT(name) == Ty("enum", name, 0, 0, 0, <<>>)
ArrT(t, n) == Ty("array", "", n, 0, 0, <<t>>)
OptT(t) == Ty("option", "", 0, 0, 0, <<t>>)
VlvT(t, min, bytes) == Ty("vlv", "", 0, min, bytes, <<t>>)
StructT(name, fields) == Ty("struct", name, 0, 0, 0, fields)
VecT(t) == Ty("vec", "", 0, 0, 0, <<t>>)

\* pub type CipherSuite = [u8; 2];
CipherSuite == ArrT(U8, 2)
\* pub type CompressionMethod = u8;
CompressionMethod == U8
\* struct A { a: u16, b: u8 } of the engine's tests
StructA == StructT("A", <<U16, U8>>)
\* struct A { x: u16, y: u16, z: [u8; 3] } of the decoder's tests
StructXYZ == StructT("A", <<U16, U16, ArrT(U8, 3)>>)
\* struct C { a: u16, d: VariableLengthVector<[u8; 2], 0, 1> } of the encoder's tests
StructC == StructT("C", <<U16, VlvT(ArrT(U8, 2), 0, 1)>>)
\* a structure whose vector holds structures: { a: u8, d: VariableLengthVector<A, 0, 1> }
StructD == StructT("D", <<U8, VlvT(StructA, 0, 1)>>)
\* pub struct GenericExtension { extension_type, extension_data }
GenericExtension ==
    StructT("GenericExtension", <<EnumT("ExtensionType"), VlvT(U8, 0, 2)>>)

\* pub type ProtocolVersion = [u8; 2];
ProtocolVersion == ArrT(U8, 2)
\* pub struct RecordHeader { content_type, version, length }
RecordHeader ==
    StructT("RecordHeader", <<EnumT("ContentType"), ProtocolVersion, U16>>)
\* pub struct RecordLayer<T> { header, data }
RecordLayer(t) == StructT("RecordLayer", <<RecordHeader, t>>)
\* pub struct ServerNameList { length, host_name_type, host_name_length, host_name }
ServerNameList ==
    StructT("ServerNameList", <<U16, U8, U16, VecT(U8)>>)

(***************************************************************************)
(* The tagged enumerations: (variant, discriminant) in declaration order.  *)
(***************************************************************************)
ContentType ==
    << <<"change_cipher_spec", 20>>, <<"alert", 21>>, <<"handshake", 22>>,
       <<"application_data", 23>>, <<"fake", 255>> >>

HandshakeType ==
    << <<"hello_request", 0>>, <<"client_hello", 1>>, <<"server_hello", 2>>,
       <<"certificate", 11>>, <<"server_key_exchange", 12>>,
       <<"certificate_request", 13>>, <<"server_hello_done", 14>>,
       <<"certificate_verify", 15>>, <<"client_key_exchange", 16>>,
       <<"finished", 20>>, <<"certificate_url", 21>>,
       <<"certificate_status", 22>>, <<"fake", 255>> >>

AlertLevel ==
    << <<"warning", 1>>, <<"fatal", 2>> >>

AlertDescriptionWithout42 ==
    << <<"close_notify", 0>>, <<"unexpected_message", 10>>,
       <<"bad_record_mac", 20>>, <<"decryption_failed_RESERVED", 21>>,
       <<"record_overflow", 22>>, <<"decompression_failure", 30>>,
       <<"handshake_failure", 40>>, <<"no_certificate_RESERVED", 41>>,
       <<"unsupported_certificate", 43>>, <<"unsupported_extension", 110>> >>

AlertDescription ==
    << <<"close_notify", 0>>, <<"unexpected_message", 10>>,
       <<"bad_record_mac", 20>>, <<"decryption_failed_RESERVED", 21>>,
       <<"record_overflow", 22>>, <<"decompression_failure", 30>>,
       <<"handshake_failure", 40>>, <<"no_certificate_RESERVED", 41>>,
       <<"bad_certificate", 42>>, <<"unsupported_certificate", 43>>,
       <<"certificate_revoked", 44>>, <<"certificate_expired", 45>>,
       <<"certificate_unknown", 46>>, <<"illegal_parameter", 47>>,
       <<"unknown_ca", 48>>, <<"access_denied", 49>>, <<"decode_error", 50>>,
       <<"decrypt_error", 51>>, <<"export_restriction_RESERVED", 60>>,
       <<"protocol_version", 70>>, <<"insufficient_security", 71>>,
       <<"internal_error", 80>>, <<"user_canceled", 90>>,
       <<"no_renegotiation", 100>>, <<"unsupported_extension", 110>> >>

ExtensionType ==
    << <<"server_name", 0>>, <<"max_fragment_length", 1>>,
       <<"client_certificate_url", 2>>, <<"trusted_ca_keys", 3>>,
       <<"truncated_hmac", 4>>, <<"status_request", 5>>,
       <<"signature_algorithms", 13>> >>

\* enum Foo { X = 1, Y = 3, Z = 5 } of the tests of the derive
Foo ==
    << <<"X", 1>>, <<"Y", 3>>, <<"Z", 5>> >>

EnumNames ==
    {"ContentType", "HandshakeType", "AlertLevel", "AlertDescription", "ExtensionType"}

EnumTable(name) ==
    CASE name = "ContentType" -> ContentType
      [] name = "HandshakeType" -> HandshakeType
      [] name = "AlertLevel" -> AlertLevel
      [] name = "AlertDescription" -> AlertDescription
      [] name = "ExtensionType" -> ExtensionType
      [] name = "Foo" -> Foo

\* #[repr(u8)] / #[repr(u16)]: the bytes of the enumeration's underlying integer
EnumRepr(name) ==
    IF name = "ExtensionType" THEN 2 ELSE 1

\* the integer type named in enum_from_network_bytes!(T, u8 | u16)
EnumWireWidth(name) ==
    IF name = "ExtensionType" THEN 2 ELSE 1

Variants(name) ==
    {EnumTable(name)[i][1] : i \in 1..Len(EnumTable(name))}

Discriminants(name) ==
    {EnumTable(name)[i][2] : i \in 1..Len(EnumTable(name))}

\* `*self as u16`: the discriminant of a variant
Discriminant(name, variant) ==
    LET t == EnumTable(name)
        i == CHOOSE j \in 1..Len(t) : t[j][1] = variant
    IN  t[i][2]

SetMin(S) ==
    CHOOSE m \in S : \A o \in S : m <= o

TryFromLenient(name, value) ==
    LET t == EnumTable(name)
        hits == {i \in 1..Len(t) : t[i][2] = value}
    IN  IF hits = {} THEN [ok |-> TRUE, v |-> t[1][1]]
        ELSE [ok |-> TRUE, v |-> t[SetMin(hits)][1]]

\* TryFrom<u16>: the match over the discriminants, first arm first
TryFromU16(name, value) ==
    LET t == EnumTable(name)
        hits == {i \in 1..Len(t) : t[i][2] = value}
    IN  IF hits = {} THEN [ok |-> FALSE, v |-> ""]
        ELSE [ok |-> TRUE, v |-> t[SetMin(hits)][1]]

(***************************************************************************)
(* Integers and bytes.                                                     *)
(***************************************************************************)
Min2(a, b) == IF a <= b THEN a ELSE b

\* `x as u8`
AsU8(x) == x % 256

\* u32::to_be_bytes
ToBeBytes(x) ==
    << (x \div 16777216) % 256, (x \div 65536) % 256, (x \div 256) % 256, x % 256 >>

\* u32::from_be_bytes
FromBeBytes(b) ==
    b[1] * 16777216 + b[2] * 65536 + b[3] * 256 + b[4]

\* <[u8]>::rotate_right(k) on a buffer of four bytes
RotateRight(b, k) ==
    [i \in 1..4 |-> b[((i - 1 - k + 4) % 4) + 1]]

\* the big-endian value of a byte sequence
RECURSIVE BeValue(_)
BeValue(bs) ==
    IF bs = <<>> THEN 0
    ELSE BeValue(SubSeq(bs, 1, Len(bs) - 1)) * 256 + bs[Len(bs)]

(***************************************************************************)
(* std::mem::size_of::<T>() and T::default().                              *)
(***************************************************************************)
RECURSIVE AlignOf(_)
AlignOf(t) ==
    CASE t.k = "u8" -> 1
      [] t.k = "u16" -> 2
      [] t.k = "u32" -> 4
      [] t.k = "enum" -> EnumRepr(t.name)
      [] t.k = "array" -> AlignOf(t.sub[1])
      [] t.k = "vec" -> 8
      [] t.k = "struct" ->
            LET as == {AlignOf(t.sub[i]) : i \in 1..Len(t.sub)}
            IN  IF as = {} THEN 1 ELSE CHOOSE m \in as : \A o \in as : o <= m

RECURSIVE SumSizes(_, _)
RECURSIVE SizeOf(_)
SizeOf(t) ==
    CASE t.k = "u8" -> 1
      [] t.k = "u16" -> 2
      [] t.k = "u32" -> 4
      [] t.k = "enum" -> EnumRepr(t.name)
      [] t.k = "array" -> t.n * SizeOf(t.sub[1])
      \* a Vec is a pointer, a capacity and a length: three words of 8 bytes
      [] t.k = "vec" -> 24
      [] t.k = "struct" ->
            \* the fields, padded to a multiple of the structure's alignment
            LET raw == SumSizes(t.sub, Len(t.sub))
                al == AlignOf(t)
            IN  ((raw + al - 1) \div al) * al

SumSizes(ts, i) ==
    IF i = 0 THEN 0 ELSE SumSizes(ts, i - 1) + SizeOf(ts[i])

RECURSIVE DefaultLastVariant(_)
DefaultLastVariant(t) ==
    CASE t.k \in {"u8", "u16", "u32"} -> 0
      [] t.k = "enum" -> EnumTable(t.name)[Len(EnumTable(t.name))][1]
      [] t.k = "array" -> [i \in 1..t.n |-> DefaultLastVariant(t.sub[1])]
      [] t.k = "option" -> <<>>
      [] t.k = "vlv" -> [length |-> 0, data |-> <<>>]
      [] t.k = "vec" -> <<>>
      [] t.k = "struct" -> [i \in 1..Len(t.sub) |-> DefaultLastVariant(t.sub[i])]

RECURSIVE Default(_)
Default(t) ==
    CASE t.k \in {"u8", "u16", "u32"} -> 0
      [] t.k = "enum" -> EnumTable(t.name)[1][1]
      [] t.k = "array" -> [i \in 1..t.n |-> Default(t.sub[1])]
      [] t.k = "option" -> <<>>
      [] t.k = "vlv" -> [length |-> 0, data |-> <<>>]
      [] t.k = "vec" -> <<>>
      [] t.k = "struct" -> [i \in 1..Len(t.sub) |-> Default(t.sub[i])]


(***************************************************************************)
(* TlsLength.                                                              *)
(***************************************************************************)
RECURSIVE TlsLen(_, _)
RECURSIVE SumFieldLens(_, _, _)

\* enum_length!: std::mem::size_of::<$t>(), for the scalars and the enumerations
EnumLength(t) ==
    SizeOf(t)

\* impl TlsLength for [T; N]
ArrayTlsLen(t, x) ==
    t.n * SizeOf(t.sub[1])

\* impl TlsLength for Option<T>
OptionTlsLen(t, x) ==
    IF x = <<>> THEN 0 ELSE TlsLen(t.sub[1], x[1])

\* impl TlsLength for VariableLengthVector<T, MIN, BYTES>
VlvTlsLen(t, x) ==
    t.bytes + Len(x.data) * SizeOf(t.sub[1])

\* impl TlsLength for Vec<T>
VecTlsLen(t, x) ==
    Len(x) * SizeOf(t.sub[1])

\* derived: 0 + tls_len(f1) + ... + tls_len(fn)
StructTlsLen(t, x) ==
    SumFieldLens(t.sub, x, Len(t.sub))

SumFieldLens(ts, xs, i) ==
    IF i = 0 THEN 0 ELSE SumFieldLens(ts, xs, i - 1) + TlsLen(ts[i], xs[i])

TlsLen(t, x) ==
    CASE t.k \in {"u8", "u16", "u32", "enum"} -> EnumLength(t)
      [] t.k = "array" -> ArrayTlsLen(t, x)
      [] t.k = "option" -> OptionTlsLen(t, x)
      [] t.k = "vlv" -> VlvTlsLen(t, x)
      [] t.k = "vec" -> VecTlsLen(t, x)
      [] t.k = "struct" -> StructTlsLen(t, x)

(***************************************************************************)
(* TlsToNetworkBytes.  to_network_bytes(&self, v) is modelled by the       *)
(* outcome [st, v, n]: st is "ok" or "panic", v the buffer afterwards and   *)
(* n the count returned in Ok(n).                                          *)
(***************************************************************************)
RECURSIVE ToNetworkBytes(_, _, _)
RECURSIVE EncodeArrayItems(_, _, _, _)
RECURSIVE EncodeItems(_, _, _, _)
RECURSIVE EncodeFields(_, _, _, _)

EncOk(v, n) == [st |-> "ok", v |-> v, n |-> n]

ScalarToNetworkBytesLittleEndian(t, x, v) ==
    CASE t.k = "u8" -> EncOk(Append(v, x), 1)
      [] t.k = "u16" -> EncOk(v \o << x % 256, (x \div 256) % 256 >>, 2)
      [] t.k = "u32" -> EncOk(v \o RotateRight(ToBeBytes(x), 2), 4)

\* impl TlsToNetworkBytes for u8 / u16 / u32
ScalarToNetworkBytes(t, x, v) ==
    CASE t.k = "u8" -> EncOk(Append(v, x), 1)
      [] t.k = "u16" -> EncOk(v \o << (x \div 256) % 256, x % 256 >>, 2)
      [] t.k = "u32" -> EncOk(v \o ToBeBytes(x), 4)

\* impl TlsToNetworkBytes for [u8]
SliceToNetworkBytes(bs, v) ==
    EncOk(v \o bs, Len(bs))

\* enum_to_network_bytes!: v.write_u8(*self as u8)?; Ok(1)
EnumToNetworkBytes(t, x, v) ==
    EncOk(Append(v, AsU8(Discriminant(t.name, x))), 1)

ArrayToNetworkBytesOverwriting(t, x, v) ==
    EncodeArrayItems(t.sub[1], x, 1, EncOk(<<>>, 0))

\* impl TlsToNetworkBytes for [T; N]: each element goes through a buffer of its own
ArrayToNetworkBytes(t, x, v) ==
    EncodeArrayItems(t.sub[1], x, 1, EncOk(v, 0))

EncodeArrayItems(t, xs, i, acc) ==
    IF i > Len(xs) \/ acc.st # "ok" THEN acc
    ELSE LET r == ToNetworkBytes(t, xs[i], <<>>)
         IN  IF r.st # "ok" THEN [acc EXCEPT !.st = r.st]
             ELSE EncodeArrayItems(t, xs, i + 1, EncOk(acc.v \o r.v, acc.n + r.n))

OptionToNetworkBytesMarked(t, x, v) ==
    IF x = <<>> THEN EncOk(Append(v, 0), 1)
    ELSE LET r == ToNetworkBytes(t.sub[1], x[1], Append(v, 1))
         IN  [r EXCEPT !.n = r.n + 1]

\* impl TlsToNetworkBytes for Option<T>
OptionToNetworkBytes(t, x, v) ==
    IF x = <<>> THEN EncOk(v, 0)
    ELSE ToNetworkBytes(t.sub[1], x[1], v)

EncodeItems(t, xs, i, acc) ==
    IF i > Len(xs) \/ acc.st # "ok" THEN acc
    ELSE LET r == ToNetworkBytes(t, xs[i], acc.v)
         IN  EncodeItems(t, xs, i + 1, [st |-> r.st, v |-> r.v, n |-> acc.n + r.n])

VlvToNetworkBytesRecomputed(t, x, v) ==
    LET buffer == ToBeBytes(Len(x.data) * SizeOf(t.sub[1]))
        pre == SliceToNetworkBytes(SubSeq(buffer, 5 - t.bytes, 4), v)
        r == EncodeItems(t.sub[1], x.data, 1, EncOk(pre.v, 0))
    IN  [r EXCEPT !.n = r.n + t.bytes]

VlvToNetworkBytesWide(t, x, v) ==
    LET w == IF t.bytes \in {1, 2, 3} THEN t.bytes ELSE 4
        pre == SliceToNetworkBytes(SubSeq(ToBeBytes(x.length), 5 - w, 4), v)
        r == EncodeItems(t.sub[1], x.data, 1, EncOk(pre.v, 0))
    IN  [r EXCEPT !.n = r.n + w]

VlvToNetworkBytesSaturating(t, x, v) ==
    LET top == CASE t.bytes = 1 -> 255 [] t.bytes = 2 -> 65535 [] OTHER -> 16777215
        buffer == ToBeBytes(Min2(x.length, top))
    IN  IF t.bytes \notin {1, 2, 3} THEN [st |-> "panic", v |-> v, n |-> 0]
        ELSE LET pre == SliceToNetworkBytes(SubSeq(buffer, 5 - t.bytes, 4), v)
                 r == EncodeItems(t.sub[1], x.data, 1, EncOk(pre.v, 0))
             IN  [r EXCEPT !.n = r.n + t.bytes]

\* impl TlsToNetworkBytes for VariableLengthVector<T, MIN, BYTES>
VlvToNetworkBytes(t, x, v) ==
    LET buffer == ToBeBytes(x.length)
    IN  IF t.bytes \notin {1, 2, 3} THEN [st |-> "panic", v |-> v, n |-> 0]
        ELSE LET pre == CASE t.bytes = 1 -> SliceToNetworkBytes(SubSeq(buffer, 4, 4), v)
                          [] t.bytes = 2 -> SliceToNetworkBytes(SubSeq(buffer, 3, 4), v)
                          [] t.bytes = 3 -> SliceToNetworkBytes(SubSeq(buffer, 2, 4), v)
                 r == EncodeItems(t.sub[1], x.data, 1, EncOk(pre.v, 0))
             IN  [r EXCEPT !.n = r.n + t.bytes]

\* impl TlsToNetworkBytes for Vec<T>: the elements, with no prefix
VecToNetworkBytes(t, x, v) ==
    EncodeItems(t.sub[1], x, 1, EncOk(v, 0))

\* derived: length += to_network_bytes(&self.f, v)? for each field, in order
StructToNetworkBytes(t, x, v) ==
    EncodeFields(t.sub, x, 1, EncOk(v, 0))

RECURSIVE EncodeFieldsReversed(_, _, _, _)
EncodeFieldsReversed(ts, xs, i, acc) ==
    IF i > Len(ts) \/ acc.st # "ok" THEN acc
    ELSE LET j == Len(ts) + 1 - i
             r == ToNetworkBytes(ts[j], xs[j], acc.v)
         IN  EncodeFieldsReversed(ts, xs, i + 1, [st |-> r.st, v |-> r.v, n |-> acc.n + r.n])

EncodeFields(ts, xs, i, acc) ==
    IF i > Len(ts) \/ acc.st # "ok" THEN acc
    ELSE LET r == ToNetworkBytes(ts[i], xs[i], acc.v)
         IN  EncodeFields(ts, xs, i + 1, [st |-> r.st, v |-> r.v, n |-> acc.n + r.n])

ToNetworkBytes(t, x, v) ==
    CASE t.k \in {"u8", "u16", "u32"} -> ScalarToNetworkBytes(t, x, v)
      [] t.k = "enum" -> EnumToNetworkBytes(t, x, v)
      [] t.k = "array" -> ArrayToNetworkBytes(t, x, v)
      [] t.k = "option" -> OptionToNetworkBytes(t, x, v)
      [] t.k = "vlv" -> VlvToNetworkBytes(t, x, v)
      [] t.k = "vec" -> VecToNetworkBytes(t, x, v)
      [] t.k = "struct" -> StructToNetworkBytes(t, x, v)

(***************************************************************************)
(* The cursor.  c = [data, pos, eofEnd, debug]: the bytes, the read        *)
(* position, and two properties of the build: whether Cursor::read_exact   *)
(* leaves the position at the end of the data when it fails (it does in    *)
(* recent standard libraries, and leaves it untouched in older ones), and  *)
(* whether debug assertions are compiled in.                               *)
(***************************************************************************)
Remaining(c) == Len(c.data) - c.pos

ReadExactOverrun(c, n) ==
    IF Remaining(c) >= n
    THEN [st |-> "ok", bytes |-> SubSeq(c.data, c.pos + 1, c.pos + n), pos |-> c.pos + n]
    ELSE [st |-> "eof", bytes |-> <<>>, pos |-> c.pos + n]

\* Read::read_exact on the cursor: all n bytes, or UnexpectedEof
ReadExact(c, n) ==
    IF Remaining(c) >= n
    THEN [st |-> "ok", bytes |-> SubSeq(c.data, c.pos + 1, c.pos + n), pos |-> c.pos + n]
    ELSE [st |-> "eof", bytes |-> <<>>,
          pos |-> IF c.eofEnd THEN Len(c.data) ELSE c.pos]

\* v.take(limit).read(&mut buffer) with buffer = [0u8; 4]: what is there, at most
\* limit bytes, at the front of the buffer; never an error
TakeRead(c, limit) ==
    LET k == Min2(Min2(limit, 4), Remaining(c))
    IN  [buffer |-> [i \in 1..4 |-> IF i <= k THEN c.data[c.pos + i] ELSE 0],
         pos |-> c.pos + k]

(***************************************************************************)
(* TlsFromNetworkBytes.  from_network_bytes(&mut self, v) is modelled by   *)
(* the outcome [st, self, pos]: st is "ok", "eof" (UnexpectedEof),         *)
(* "unknown" (the TryFrom conversion error) or "panic"; self the           *)
(* destination afterwards; pos the cursor's position afterwards.           *)
(***************************************************************************)
RECURSIVE FromNetworkBytes(_, _, _)
RECURSIVE DecodeArrayItems(_, _, _, _)
RECURSIVE DecodeItems(_, _, _, _)
RECURSIVE DecodeFields(_, _, _, _)

DecRes(st, self, pos) == [st |-> st, self |-> self, pos |-> pos]

At(c, pos) == [c EXCEPT !.pos = pos]

ScalarFromNetworkBytesGreedy(t, self, c) ==
    LET r == ReadExact(c, SizeOf(t))
    IN  IF r.st = "ok" THEN DecRes("ok", BeValue(r.bytes), Len(c.data))
        ELSE DecRes(r.st, self, r.pos)

ScalarFromNetworkBytesZeroing(t, self, c) ==
    LET r == ReadExact(c, SizeOf(t))
    IN  IF r.st = "ok" THEN DecRes("ok", BeValue(r.bytes), r.pos)
        ELSE DecRes(r.st, 0, r.pos)

\* impl TlsFromNetworkBytes for u8 / u16 / u32: *self = v.read_uN::<BigEndian>()?
ScalarFromNetworkBytes(t, self, c) ==
    LET r == ReadExact(c, SizeOf(t))
    IN  IF r.st = "ok" THEN DecRes("ok", BeValue(r.bytes), r.pos)
        ELSE DecRes(r.st, self, r.pos)

\* enum_from_network_bytes!($t, u8) and ($t, u16)
EnumFromNetworkBytes(t, self, c) ==
    LET r == ReadExact(c, EnumWireWidth(t.name))
    IN  IF r.st # "ok" THEN DecRes(r.st, self, r.pos)
        ELSE LET ct == TryFromU16(t.name, BeValue(r.bytes))
             IN  IF ct.ok THEN DecRes("ok", ct.v, r.pos)
                 ELSE DecRes("unknown", self, r.pos)

\* impl TlsFromNetworkBytes for [T; N]: for x in self { x.from_network_bytes(v)?; }
ArrayFromNetworkBytes(t, self, c) ==
    DecodeArrayItems(t.sub[1], 1, self, c)

DecodeArrayItems(t, i, self, c) ==
    IF i > Len(self) THEN DecRes("ok", self, c.pos)
    ELSE LET r == FromNetworkBytes(t, self[i], c)
             now == [self EXCEPT ![i] = r.self]
         IN  IF r.st # "ok" THEN DecRes(r.st, now, r.pos)
             ELSE DecodeArrayItems(t, i + 1, now, At(c, r.pos))

OptionFromNetworkBytesEager(t, self, c) ==
    LET r == FromNetworkBytes(t.sub[1], IF self = <<>> THEN Default(t.sub[1]) ELSE self[1], c)
    IN  DecRes(r.st, <<r.self>>, r.pos)

\* impl TlsFromNetworkBytes for Option<T>
OptionFromNetworkBytes(t, self, c) ==
    IF self = <<>> THEN DecRes("ok", self, c.pos)
    ELSE LET r == FromNetworkBytes(t.sub[1], self[1], c)
         IN  DecRes(r.st, <<r.self>>, r.pos)

\* for _ in 0..length { let mut u = T::default(); u.from_network_bytes(v)?; self.data.push(u); }
DecodeItems(t, left, self, c) ==
    IF left = 0 THEN DecRes("ok", self, c.pos)
    ELSE LET r == FromNetworkBytes(t, Default(t), c)
         IN  IF r.st # "ok" THEN DecRes(r.st, self, r.pos)
             ELSE DecodeItems(t, left - 1,
                              [self EXCEPT !.data = Append(self.data, r.self)],
                              At(c, r.pos))

VlvFromNetworkBytesClearing(t, self, c) ==
    LET rd == TakeRead(c, t.bytes)
        length == FromBeBytes(RotateRight(rd.buffer, 4 - Min2(t.bytes, 4)))
    IN  IF t.bytes \notin {1, 2, 3} THEN DecRes("panic", self, rd.pos)
        ELSE DecodeItems(t.sub[1], length \div SizeOf(t.sub[1]),
                         [length |-> length, data |-> <<>>], At(c, rd.pos))

VlvFromNetworkBytesMinChecked(t, self, c) ==
    LET rd == TakeRead(c, t.bytes)
        length == FromBeBytes(RotateRight(rd.buffer, 4 - Min2(t.bytes, 4)))
        r == DecodeItems(t.sub[1], length \div SizeOf(t.sub[1]),
                         [self EXCEPT !.length = length], At(c, rd.pos))
    IN  IF t.bytes \notin {1, 2, 3} THEN DecRes("panic", self, rd.pos)
        ELSE IF r.st = "ok" /\ Len(r.self.data) < t.min THEN DecRes("invalid", r.self, r.pos)
        ELSE r

\* impl TlsFromNetworkBytes for VariableLengthVector<T, MIN, BYTES>
VlvFromNetworkBytes(t, self, c) ==
    IF c.debug /\ t.bytes > 3 THEN DecRes("panic", self, c.pos)
    ELSE LET rd == TakeRead(c, t.bytes)
         IN  IF t.bytes \notin {1, 2, 3} THEN DecRes("panic", self, rd.pos)
             ELSE LET buffer == CASE t.bytes = 1 -> RotateRight(rd.buffer, 3)
                                  [] t.bytes = 2 -> RotateRight(rd.buffer, 2)
                                  [] t.bytes = 3 -> RotateRight(rd.buffer, 1)
                      length == FromBeBytes(buffer)
                  IN  DecodeItems(t.sub[1], length \div SizeOf(t.sub[1]),
                                  [self EXCEPT !.length = length], At(c, rd.pos))

\* impl TlsFromNetworkBytes for Vec<T>: the count of elements comes from the
\* length of the cursor's whole underlying sequence, v.get_ref().len()
VecFromNetworkBytes(t, self, c) ==
    LET length == Len(c.data) \div SizeOf(t.sub[1])
        r == DecodeItems(t.sub[1], length, [data |-> self], c)
    IN  DecRes(r.st, r.self.data, r.pos)

\* derived: from_network_bytes(&mut self.f, v)? for each field, in order
StructFromNetworkBytes(t, self, c) ==
    DecodeFields(t.sub, 1, self, c)

RECURSIVE DecodeFieldsRestart(_, _, _, _)
DecodeFieldsRestart(ts, i, self, c) ==
    IF i > Len(ts) THEN DecRes("ok", self, c.pos)
    ELSE LET r == FromNetworkBytes(ts[i], self[i], c)
             now == [self EXCEPT ![i] = r.self]
         IN  IF r.st # "ok" THEN DecRes(r.st, now, r.pos)
             ELSE DecodeFieldsRestart(ts, i + 1, now, c)

RECURSIVE DecodeFieldsAllOrNothing(_, _, _, _)
DecodeFieldsAllOrNothing(ts, i, self, c) ==
    IF i > Len(ts) THEN DecRes("ok", self, c.pos)
    ELSE LET r == FromNetworkBytes(ts[i], self[i], c)
             now == [self EXCEPT ![i] = r.self]
         IN  IF r.st # "ok"
             THEN DecRes(r.st, [j \in 1..Len(ts) |-> Default(ts[j])], r.pos)
             ELSE DecodeFieldsAllOrNothing(ts, i + 1, now, At(c, r.pos))

DecodeFields(ts, i, self, c) ==
    IF i > Len(ts) THEN DecRes("ok", self, c.pos)
    ELSE LET r == FromNetworkBytes(ts[i], self[i], c)
             now == [self EXCEPT ![i] = r.self]
         IN  IF r.st # "ok" THEN DecRes(r.st, now, r.pos)
             ELSE DecodeFields(ts, i + 1, now, At(c, r.pos))

FromNetworkBytes(t, self, c) ==
    CASE t.k \in {"u8", "u16", "u32"} -> ScalarFromNetworkBytes(t, self, c)
      [] t.k = "enum" -> EnumFromNetworkBytes(t, self, c)
      [] t.k = "array" -> ArrayFromNetworkBytes(t, self, c)
      [] t.k = "option" -> OptionFromNetworkBytes(t, self, c)
      [] t.k = "vlv" -> VlvFromNetworkBytes(t, self, c)
      [] t.k = "vec" -> VecFromNetworkBytes(t, self, c)
      [] t.k = "struct" -> StructFromNetworkBytes(t, self, c)

(***************************************************************************)
(* Constructors.                                                           *)
(***************************************************************************)
\* VariableLengthVector::from_slice; the cast `as u32` changes no value below
\* 2^32, which no slice of the model comes near
FromSlice(t, data) ==
    [length |-> Len(data) * SizeOf(t.sub[1]), data |-> data]

\* ServerNameList::new(host_name), host_name as its bytes
ServerNameListNew(host_name) ==
    << (Len(host_name) + 3) % 65536, 0, Len(host_name) % 65536, host_name >>

\* ClientHello::new(suites): the two vectors and the extensions it builds
\* (client_version, random and session_id hold no vector)
ClientHelloNew(suites) ==
    [cipher_suites |-> [length |-> 2, data |-> suites],
     compression_methods |-> [length |-> 1, data |-> <<0>>],
     extensions |-> <<>>]

(***************************************************************************)
(* The inputs the caller is given.                                         *)
(***************************************************************************)
\* the longest wire input enumerated over WireAlphabet
MaxWire == 2

WireAlphabet == {0, 1, 2}

RECURSIVE SeqsUpTo(_, _)
SeqsUpTo(S, n) ==
    IF n = 0 THEN {<<>>}
    ELSE LET shorter == SeqsUpTo(S, n - 1)
         IN  shorter \cup {Append(w, b) : w \in {u \in shorter : Len(u) = n - 1}, b \in S}

ShortWires == SeqsUpTo(WireAlphabet, MaxWire)

CipherSuites == {<<0, 57>>, <<192, 47>>, <<204, 168>>}

SuiteLists ==
    {<<>>, << <<0, 57>> >>, << <<204, 168>>, <<192, 47>> >>,
     << <<204, 168>>, <<192, 47>>, <<0, 57>> >>}

Types ==
    {U8, U16, U32}
    \cup {EnumT(n) : n \in EnumNames}
    \cup {CipherSuite, ArrT(U16, 2), ArrT(EnumT("ExtensionType"), 2), ArrT(StructA, 2)}
    \cup {VlvT(U8, 1, 1), VlvT(U16, 1, 2), VlvT(CipherSuite, 0, 1),
          VlvT(CipherSuite, 2, 2), VlvT(U8, 0, 3), VlvT(StructA, 0, 1),
          VlvT(EnumT("ExtensionType"), 0, 1)}
    \cup {OptT(U32), OptT(VlvT(U8, 1, 1))}
    \cup {VlvT(U8, 0, 0), VlvT(U8, 0, 4)}
    \cup {StructA, StructXYZ, StructC, StructD, GenericExtension}
    \cup {VecT(U16), ServerNameList}

\* the slices from_slice is given, per element type
Slices(t) ==
    CASE t = U8 -> {<<>>, <<52>>, <<52, 86, 120>>}
      [] t = U16 -> {<<>>, <<4660, 22136>>}
      [] t = CipherSuite -> SuiteLists
      [] t = StructA -> {<<>>, << <<255, 32>> >>, << <<255, 32>>, <<4660, 1>> >>}
      [] t = EnumT("ExtensionType") -> {<<>>, <<"server_name", "signature_algorithms">>}

\* vectors written as structure literals, the length field being the caller's
Literals(t) ==
    CASE t = VlvT(CipherSuite, 0, 1) ->
            {[length |-> 4, data |-> << <<0, 0>>, <<1, 1>> >>],
             [length |-> 0, data |-> << <<0, 0>>, <<1, 1>> >>]}
      [] t = VlvT(U8, 1, 1) ->
            {[length |-> 0, data |-> <<48, 49, 50>>],
             [length |-> 300, data |-> <<7>>]}
      [] t = VlvT(U16, 1, 2) -> {[length |-> 3, data |-> <<4660>>]}
      [] OTHER -> {}

\* host names, as bytes: "", "e", "ex"
HostNames == {<<>>, <<101>>, <<101, 120>>}

\* the values of the types that are written as literals
Values(t) ==
    CASE t = U8 -> {0, 52, 255}
      [] t = U16 -> {255, 4660, 65535}
      [] t = U32 -> {0, 305419896, 2147483647}
      [] t.k = "enum" -> Variants(t.name)
      [] t = CipherSuite -> CipherSuites
      [] t = ArrT(U16, 2) -> {<<4660, 22136>>, <<65535, 65535>>}
      [] t = StructA -> {<<255, 32>>, <<4660, 1>>}
      [] t = ArrT(EnumT("ExtensionType"), 2) -> {<<"server_name", "signature_algorithms">>}
      [] t = ArrT(StructA, 2) -> {<< <<255, 32>>, <<4660, 1>> >>}
      [] t = StructXYZ -> {<<517, 768, <<1, 2, 3>>>>}
      [] t = StructC ->
            {<<255, [length |-> 4, data |-> << <<0, 0>>, <<1, 1>> >>]>>,
             <<255, [length |-> 0, data |-> << <<0, 0>>, <<1, 1>> >>]>>}
      [] t = StructD ->
            {<<7, FromSlice(VlvT(StructA, 0, 1), << <<255, 32>> >>)>>,
             <<7, [length |-> 0, data |-> << <<255, 32>>, <<4660, 1>> >>]>>}
      [] t = GenericExtension ->
            {<<"signature_algorithms", FromSlice(VlvT(U8, 0, 2), <<52, 86>>)>>}
      [] t = VecT(U16) -> {<<>>, <<4660, 22136>>}
      [] t = ServerNameList -> {ServerNameListNew(h) : h \in HostNames}

Inst(i, o) == [x |-> i, origin |-> o]

\* the instances of type t the caller holds, each with the way it was built
RECURSIVE Instances(_)
Instances(t) ==
    (CASE t.k = "vlv" ->
            {Inst(FromSlice(t, d), "from_slice") : d \in Slices(t.sub[1])}
            \cup {Inst(i, "literal") : i \in Literals(t)}
       [] t.k = "option" ->
            {Inst(<<>>, "literal")}
            \cup {Inst(<<i.x>>, i.origin) : i \in Instances(t.sub[1])}
       [] OTHER -> {Inst(i, "literal") : i \in Values(t)})
    \cup (IF t = VlvT(CipherSuite, 2, 2)
          THEN {Inst(ClientHelloNew(s).cipher_suites, "client_hello") : s \in SuiteLists}
          ELSE {})
    \cup (IF t = VlvT(CompressionMethod, 1, 1)
          THEN {Inst(ClientHelloNew(s).compression_methods, "client_hello") : s \in SuiteLists}
          ELSE {})

\* byte sequences arriving from the peer, per type: the short ones over
\* WireAlphabet and the ones that hold whole values
Examples(t) ==
    CASE t = U8 -> {<<255>>, <<255, 18, 52>>}
      [] t = U16 -> {<<18, 52>>, <<18, 52, 86, 120>>, <<18, 52, 86>>}
      [] t = U32 -> {<<18, 52, 86, 120>>, <<18, 52, 86>>}
      [] t.k = "enum" /\ EnumWireWidth(t.name) = 1 ->
            {<<b>> : b \in Discriminants(t.name) \cup {6, 42, 99, 254}}
      [] t.k = "enum" /\ EnumWireWidth(t.name) = 2 ->
            {<<0, b>> : b \in Discriminants(t.name) \cup {6, 255}}
            \cup {<<1, 0>>, <<1, 13>>, <<13, 0>>, <<255, 255>>, <<13>>}
      [] t = CipherSuite -> {<<192, 47>>, <<192>>}
      [] t = ArrT(U16, 2) -> {<<18, 52, 86, 120>>, <<18, 52, 86>>}
      [] t = VlvT(U8, 1, 1) ->
            {<<3, 52, 86, 120>>, <<3, 52, 86>>, <<2, 52, 86, 120>>, <<1, 52, 2, 86, 120>>}
      [] t = VlvT(U16, 1, 2) ->
            {<<0, 4, 18, 52, 86, 120>>, <<0, 3, 18, 52, 86>>, <<0, 4, 18, 52, 86>>}
      [] t = VlvT(CipherSuite, 0, 1) ->
            {<<4, 0, 0, 1, 1>>, <<10, 0, 1, 1, 2, 3, 4, 5, 6, 7, 8>>, <<3, 0, 0, 1>>}
      [] t = VlvT(CipherSuite, 2, 2) -> {<<0, 2, 0, 57>>, <<0, 4, 204, 168, 192, 47>>}
      [] t = VlvT(U8, 0, 3) -> {<<0, 0, 2, 5, 6>>, <<0, 1, 0>>}
      [] t = VlvT(StructA, 0, 1) ->
            {<<3, 0, 255, 32>>, <<4, 0, 255, 32>>, <<8, 0, 255, 32, 18, 52, 1>>,
             <<6, 0, 255, 32, 18, 52, 1>>}
      [] t = VlvT(EnumT("ExtensionType"), 0, 1) -> {<<2, 0, 13>>, <<2, 13>>, <<4, 0, 13, 0, 6>>}
      [] t = OptT(U32) -> {<<18, 52, 86, 120>>}
      [] t = OptT(VlvT(U8, 1, 1)) -> {<<3, 52, 86, 120>>}
      [] t = StructA -> {<<0, 255, 32>>, <<0, 255>>}
      [] t = ArrT(EnumT("ExtensionType"), 2) -> {<<0, 0, 0, 13>>, <<0, 13, 0, 6>>, <<0, 13, 0>>}
      [] t = ArrT(StructA, 2) -> {<<0, 255, 32, 18, 52, 1>>, <<0, 255, 32, 18, 52>>}
      [] t = VlvT(U8, 0, 0) -> {<<0, 0, 0, 1, 5>>}
      [] t = VlvT(U8, 0, 4) -> {<<0, 0, 0, 1, 5>>, <<0, 0, 0>>}
      [] t = StructXYZ ->
            {<<2, 5, 3, 0, 1, 2, 3>>, <<2, 5, 3, 0, 1, 2, 3, 4>>, <<2, 5, 3, 0, 1, 2>>,
             <<2, 5, 3>>}
      [] t = StructC -> {<<0, 255, 4, 0, 0, 1, 1>>, <<0, 255, 4, 0, 0, 1>>}
      [] t = StructD -> {<<7, 4, 0, 255, 32>>, <<7, 8, 0, 255, 32>>}
      [] t = GenericExtension ->
            {<<0, 13, 0, 2, 5, 6>>, <<0, 6, 0, 2, 5, 6>>, <<0, 13, 0, 2, 5>>}
      [] t = VecT(U16) ->
            {<<18, 52, 86, 120>>, <<18, 52, 86>>, <<18, 52, 86, 120, 154, 188, 222, 240>>}
      [] t = ServerNameList -> {<<0, 5, 0, 0, 2, 101, 120>>, <<0, 3, 0, 0, 0>>}

Wires(t) == ShortWires \cup Examples(t)

\* a value of type t that a destination holds from an earlier use
RECURSIVE Filled(_)
Filled(t) ==
    CASE t.k \in {"u8", "u16", "u32"} -> 9
      [] t.k = "enum" -> EnumTable(t.name)[Len(EnumTable(t.name))][1]
      [] t.k = "array" -> [i \in 1..t.n |-> Filled(t.sub[1])]
      [] t.k = "option" -> <<Filled(t.sub[1])>>
      [] t.k = "vlv" -> FromSlice(t, <<Filled(t.sub[1])>>)
      [] t.k = "vec" -> <<Filled(t.sub[1])>>
      [] t.k = "struct" -> [i \in 1..Len(t.sub) |-> Filled(t.sub[i])]

\* the destinations the caller decodes into
Dests(t) ==
    CASE t.k = "enum" -> {Default(t), EnumTable(t.name)[Len(EnumTable(t.name))][1]}
      [] t.k = "option" -> {Default(t), <<Default(t.sub[1])>>}
      [] t.k \in {"u8", "u16", "u32", "array", "struct", "vec"} -> {Default(t), Filled(t)}
      [] OTHER -> {Default(t)}

(***************************************************************************)
(* The caller.                                                             *)
(***************************************************************************)
VARIABLES
    ty,      \* the type of x and y
    x,       \* the instance that is measured and encoded
    origin,  \* how x was built: "from_slice", "client_hello", "literal", "default"
    y,       \* the destination that is decoded into
    y0,      \* y as the caller set it up
    v,       \* the output buffer, a Vec<u8>
    cur,     \* the cursor: [data, pos]
    wire,    \* where the cursor's bytes come from: "peer" or "encoded"
    nEnc,    \* encodes of x into v so far
    nDec,    \* decodes into y so far
    len,     \* what the last tls_len returned, -1 before
    enc,     \* the last encode: [st, n, before], before = Len(v) when it started
    dec      \* the last decode: [st, pos, self, data]: the cursor and y when it started

vars == <<ty, x, origin, y, y0, v, cur, wire, nEnc, nDec, len, enc, dec>>

NoEnc == [st |-> "none", n |-> 0, before |-> 0]
NoDec == [st |-> "none", pos |-> 0, self |-> <<>>, data |-> <<>>]

\* the caller either holds an instance to send, or bytes received to decode
Scenarios(t) ==
    {[i |-> i, w |-> <<>>] : i \in Instances(t)}
    \cup {[i |-> Inst(Default(t), "default"), w |-> w] : w \in Wires(t)}

Init ==
    \E t \in Types : \E s \in Scenarios(t) :
        /\ ty = t
        /\ x = s.i.x
        /\ origin = s.i.origin
        /\ y \in Dests(t)
        /\ y0 = y
        /\ v = <<>>
        /\ cur = [data |-> s.w, pos |-> 0]
        /\ wire = "peer"
        /\ nEnc = 0
        /\ nDec = 0
        /\ len = -1
        /\ enc = NoEnc
        /\ dec = NoDec

Crashed == enc.st = "panic" \/ dec.st = "panic"

\* x.tls_len()
Length ==
    /\ ~Crashed
    /\ len' = TlsLen(ty, x)
    /\ UNCHANGED <<ty, x, origin, y, y0, v, cur, wire, nEnc, nDec, enc, dec>>

\* x.to_network_bytes(&mut v)
Encode ==
    /\ ~Crashed
    /\ nEnc < MaxEncodes
    /\ LET r == ToNetworkBytes(ty, x, v)
       IN  /\ v' = r.v
           /\ enc' = [st |-> r.st, n |-> r.n, before |-> Len(v)]
    /\ nEnc' = nEnc + 1
    /\ UNCHANGED <<ty, x, origin, y, y0, cur, wire, nDec, len, dec>>

\* Cursor::new(v) over the bytes encoded so far, and a destination set up anew
Rewind ==
    /\ ~Crashed
    /\ nEnc > 0
    /\ wire = "peer"
    /\ nDec = 0
    /\ cur' = [data |-> v, pos |-> 0]
    /\ wire' = "encoded"
    /\ UNCHANGED <<ty, x, origin, y, y0, v, nEnc, nDec, len, enc, dec>>

\* y.from_network_bytes(&mut cur), under either behaviour of the build
Decode ==
    /\ ~Crashed
    /\ nDec < MaxDecodes
    /\ \E eofEnd \in BOOLEAN, debug \in BOOLEAN :
          LET r == FromNetworkBytes(ty, y, [data |-> cur.data, pos |-> cur.pos,
                                            eofEnd |-> eofEnd, debug |-> debug])
          IN  /\ y' = r.self
              /\ cur' = [cur EXCEPT !.pos = r.pos]
              /\ dec' = [st |-> r.st, pos |-> cur.pos, self |-> y, data |-> cur.data]
    /\ nDec' = nDec + 1
    /\ UNCHANGED <<ty, x, origin, y0, v, wire, nEnc, len, enc>>

Next == Length \/ Encode \/ Rewind \/ Decode

Spec == Init /\ [][Next]_vars

(***************************************************************************)
(* The record layer: the caller builds a record around a payload, calls    *)
(* set_length and encodes the record into v.  y0 keeps the record as it    *)
(* was built.                                                              *)
(***************************************************************************)
\* the header.length fields a record is built with
BuiltLengths == {0, 9}

InitRecord ==
    \E t \in Types : \E i \in Instances(t) : \E l \in BuiltLengths :
        /\ ty = RecordLayer(t)
        /\ x = << <<"handshake", <<3, 1>>, l>>, i.x >>
        /\ origin = i.origin
        /\ y = x
        /\ y0 = x
        /\ v = <<>>
        /\ cur = [data |-> <<>>, pos |-> 0]
        /\ wire = "record"
        /\ nEnc = 0
        /\ nDec = 0
        /\ len = -1
        /\ enc = NoEnc
        /\ dec = NoDec

\* record_layer.set_length(): self.header.length = self.data.tls_len() as u16
SetLength ==
    /\ wire = "record"
    /\ nEnc = 0
    /\ len' = TlsLen(ty.sub[2], x[2])
    /\ x' = [x EXCEPT ![1][3] = len' % 65536]
    /\ UNCHANGED <<ty, origin, y, y0, v, cur, wire, nEnc, nDec, enc, dec>>

NextRecord == SetLength \/ Encode

SpecRecord == InitRecord /\ [][NextRecord]_vars

(***************************************************************************)
(* to_u24, on its own: the caller holds n in x and receives the array in v. *)
(***************************************************************************)
ToU24LittleEndian(n) ==
    << n % 256, (n \div 256) % 256, (n \div 65536) % 256 >>

\* pub fn to_u24(n: u32) -> [u8; 3]
ToU24(n) ==
    << (n \div 65536) % 256, (n \div 256) % 256, n % 256 >>

\* the number of evenly spread values of n tried besides the named ones
MaxU24Samples == 60

U24Inputs ==
    {0, 161, 255, 31500, 75235, 16777215, 16777216, 16852451, 2147483647}
    \cup {i * 34952533 : i \in 1..MaxU24Samples}

InitU24 ==
    /\ ty = U32
    /\ x \in U24Inputs
    /\ origin = "literal"
    /\ y = 0
    /\ y0 = 0
    /\ v = <<>>
    /\ cur = [data |-> <<>>, pos |-> 0]
    /\ wire = "u24"
    /\ nEnc = 0
    /\ nDec = 0
    /\ len = -1
    /\ enc = NoEnc
    /\ dec = NoDec

\* let a = to_u24(n)
CallToU24 ==
    /\ wire = "u24"
    /\ nEnc = 0
    /\ v' = ToU24(x)
    /\ nEnc' = 1
    /\ UNCHANGED <<ty, x, origin, y, y0, cur, wire, nDec, len, enc, dec>>

NextU24 == CallToU24

SpecU24 == InitU24 /\ [][NextU24]_vars

(***************************************************************************)
(* What the properties below are stated with.                              *)
(***************************************************************************)
\* the bytes the last encode appended to v
Appended == SubSeq(v, enc.before + 1, Len(v))

\* the bytes left in the cursor when the last decode started
RemainingBefore == Len(dec.data) - dec.pos

\* the bytes the last decode consumed
Consumed == cur.pos - dec.pos

\* value as a big-endian unsigned integer of w bytes (its low-order w bytes)
RECURSIVE Pow256(_)
Pow256(w) == IF w = 0 THEN 1 ELSE 256 * Pow256(w - 1)

BigEndian(value, w) ==
    [i \in 1..w |-> (value \div Pow256(w - i)) % 256]

\* the bytes one value of a fixed-width type takes on the wire, by the wire format:
\* W/8 for a scalar, the declared width for an enumeration, the elements of an
\* array and the fields of a structure one after the other
RECURSIVE WireWidth(_)
RECURSIVE SumWireWidths(_, _)
WireWidth(t) ==
    CASE t.k = "u8" -> 1
      [] t.k = "u16" -> 2
      [] t.k = "u32" -> 4
      [] t.k = "enum" -> EnumRepr(t.name)
      [] t.k = "array" -> t.n * WireWidth(t.sub[1])
      [] t.k = "struct" -> SumWireWidths(t.sub, Len(t.sub))

SumWireWidths(ts, i) ==
    IF i = 0 THEN 0 ELSE SumWireWidths(ts, i - 1) + WireWidth(ts[i])

\* every vector within the value f of type t has the length from_slice gives
RECURSIVE BuiltBySlice(_, _)
BuiltBySlice(t, f) ==
    CASE t.k = "vlv" ->
            /\ f.length = Len(f.data) * SizeOf(t.sub[1])
            /\ \A i \in 1..Len(f.data) : BuiltBySlice(t.sub[1], f.data[i])
      [] t.k \in {"array", "vec", "option"} ->
            \A i \in 1..Len(f) : BuiltBySlice(t.sub[1], f[i])
      [] t.k = "struct" -> \A i \in 1..Len(t.sub) : BuiltBySlice(t.sub[i], f[i])
      [] OTHER -> TRUE

\* x was built the way the round trip asks for: a vector by from_slice, an
\* Option present
RoundTripValue ==
    /\ BuiltBySlice(ty, x)
    /\ ty.k = "vlv" => origin = "from_slice"
    /\ ty.k = "option" => x # <<>> /\ (ty.sub[1].k = "vlv" => origin = "from_slice")
    /\ origin # "default"

\* a fresh destination: the default, an Option pre-set to present
FreshDest(t) ==
    IF t.k = "option" THEN <<Default(t.sub[1])>> ELSE Default(t)

\* x was encoded once into the empty buffer and those bytes were decoded once,
\* from their start, into a fresh destination
RoundTripDone ==
    /\ wire = "encoded"
    /\ nEnc = 1
    /\ nDec = 1
    /\ enc.st = "ok"
    /\ y0 = FreshDest(ty)

(***************************************************************************)
(* C1.  Round trip: for every codec-capable value x (a scalar, a tagged    *)
(* enumeration of 8-bit or 16-bit width, a fixed-size array, a vector      *)
(* built with from_slice, an Option that is present), encoding x into an   *)
(* empty buffer and decoding those bytes into a fresh default destination  *)
(* succeeds and yields a value equal to x.                                 *)
(* The 16-bit enumeration breaks it: see C8.                               *)
(***************************************************************************)
C1_RoundTrip ==
    (RoundTripDone /\ RoundTripValue) => (dec.st = "ok" /\ y = x)

\* apart from a value that holds the 16-bit enumeration or a Vec field, the
\* round trip holds
RECURSIVE HoldsWideEnum(_)
HoldsWideEnum(t) ==
    \/ t.k = "enum" /\ EnumRepr(t.name) # 1
    \/ \E i \in 1..Len(t.sub) : HoldsWideEnum(t.sub[i])

\* a structure with a Vec among its fields: its decode counts the elements
\* from the whole cursor (C27)
HoldsVecField(t) ==
    t.k = "struct" /\ \E i \in 1..Len(t.sub) : t.sub[i].k = "vec"

RoundTripOfNarrow ==
    (RoundTripDone /\ RoundTripValue /\ ~HoldsWideEnum(ty) /\ ~HoldsVecField(ty)) =>
        (dec.st = "ok" /\ y = x)

(***************************************************************************)
(* C2.  Length agreement: tls_len(x) equals the count to_network_bytes(x)  *)
(* returns, which equals the number of bytes appended to the buffer, which *)
(* equals the number of bytes the cursor advances when those bytes are     *)
(* decoded back into x.                                                    *)
(* The 16-bit enumeration (C8) and a vector of structures break it.        *)
(***************************************************************************)
C2_LengthAgreement ==
    /\ (len # -1 /\ enc.st = "ok") =>
          (len = enc.n /\ enc.n = Len(Appended))
    /\ (len # -1 /\ RoundTripDone /\ dec.st = "ok" /\ y = x) =>
          Consumed = len

(***************************************************************************)
(* Vectors.                                                                *)
(***************************************************************************)
\* the encodings of the first i elements of data, one after the other
RECURSIVE ElementsEncoding(_, _, _)
ElementsEncoding(t, data, i) ==
    IF i = 0 THEN <<>>
    ELSE ElementsEncoding(t, data, i - 1) \o ToNetworkBytes(t, data[i], <<>>).v

\* the sum of the counts the first i elements of data return when encoded
RECURSIVE ElementsWritten(_, _, _)
ElementsWritten(t, data, i) ==
    IF i = 0 THEN 0
    ELSE ElementsWritten(t, data, i - 1) + ToNetworkBytes(t, data[i], <<>>).n

\* the byte size of the encoded data payload of the vector vec
PayloadBytes(t, vec) ==
    ElementsWritten(t.sub[1], vec.data, Len(vec.data))

\* the last decode was the first one of a vector, into a default instance
VlvDecoded ==
    /\ ty.k = "vlv"
    /\ nDec = 1
    /\ dec.st # "none"
    /\ dec.self = Default(ty)

\* the length prefix at the head of what the last decode was given
Prefix == SubSeq(dec.data, dec.pos + 1, dec.pos + ty.bytes)

\* the bytes of the elements that the length prefix announces
AnnouncedBytes == (BeValue(Prefix) \div SizeOf(ty.sub[1])) * WireWidth(ty.sub[1])

\* the i-th element decoded on its own from its place after the prefix
ElementAt(i) ==
    FromNetworkBytes(ty.sub[1], Default(ty.sub[1]),
                     [data |-> dec.data,
                      pos |-> dec.pos + ty.bytes + (i - 1) * WireWidth(ty.sub[1]),
                      eofEnd |-> FALSE, debug |-> FALSE]).self

(***************************************************************************)
(* C3.  Decoding a VariableLengthVector<T, MIN, BYTES> into a default      *)
(* instance reads exactly BYTES bytes as a big-endian unsigned integer,    *)
(* stores it in length, then decodes floor(length / size_of(T)) elements   *)
(* in order and appends them to data; the cursor advances by BYTES plus    *)
(* the bytes of those elements.                                            *)
(* A cursor with fewer than BYTES bytes left breaks it: see C5.            *)
(***************************************************************************)
C3_VlvDecode ==
    (VlvDecoded /\ dec.st = "ok") =>
        /\ RemainingBefore >= ty.bytes
        /\ y.length = BeValue(Prefix)
        /\ Len(y.data) = y.length \div SizeOf(ty.sub[1])
        /\ \A i \in 1..Len(y.data) : y.data[i] = ElementAt(i)
        /\ Consumed = ty.bytes + Len(y.data) * WireWidth(ty.sub[1])

\* with the whole prefix in the cursor, the decode is the one C3 describes
VlvDecodeWithPrefix ==
    (VlvDecoded /\ dec.st = "ok" /\ RemainingBefore >= ty.bytes) =>
        /\ y.length = BeValue(Prefix)
        /\ Len(y.data) = y.length \div SizeOf(ty.sub[1])
        /\ \A i \in 1..Len(y.data) : y.data[i] = ElementAt(i)
        /\ Consumed = ty.bytes + Len(y.data) * WireWidth(ty.sub[1])

C5_VlvTruncated ==
    VlvDecoded =>
        /\ RemainingBefore < ty.bytes => dec.st = "eof"
        /\ (RemainingBefore >= ty.bytes /\ RemainingBefore < ty.bytes + AnnouncedBytes) =>
              dec.st = "eof"

\* with the whole prefix in the cursor, running out of elements is an error
VlvElementsTruncated ==
    (VlvDecoded /\ RemainingBefore >= ty.bytes
        /\ RemainingBefore < ty.bytes + AnnouncedBytes) => dec.st = "eof"

(***************************************************************************)
(* C6.  In every VariableLengthVector produced by from_slice, by           *)
(* ClientHello::new for any list of cipher suites, or by a successful      *)
(* decode into a default instance, the length field equals the byte size   *)
(* of the encoded data payload (the sum of the encoded sizes of the        *)
(* elements of data), not the element count.                               *)
(***************************************************************************)
C6_VlvLengthIsPayload ==
    /\ (ty.k = "vlv" /\ origin \in {"from_slice", "client_hello"}) =>
          x.length = PayloadBytes(ty, x)
    /\ (VlvDecoded /\ dec.st = "ok") =>
          y.length = PayloadBytes(ty, y)

(***************************************************************************)
(* Enumerations.                                                           *)
(***************************************************************************)
\* the integer of the enumeration's width at the head of what the last decode
\* was given
WireDiscriminant ==
    BeValue(SubSeq(dec.data, dec.pos + 1, dec.pos + EnumRepr(ty.name)))

\* the last decode was one of an enumeration with a whole integer to read
EnumDecoded ==
    /\ ty.k = "enum"
    /\ dec.st # "none"
    /\ RemainingBefore >= EnumRepr(ty.name)

(***************************************************************************)
(* C7.  For every tagged enumeration and every integer of its wire width   *)
(* that is not one of its declared discriminants, decode returns an        *)
(* unknown-discriminant error, substitutes neither the default nor any     *)
(* other variant, and leaves the destination as it was before the call;    *)
(* for every declared discriminant it sets the destination to exactly the  *)
(* variant with that discriminant.                                         *)
(***************************************************************************)
C7_EnumDecode ==
    EnumDecoded =>
        IF WireDiscriminant \in Discriminants(ty.name)
        THEN /\ dec.st = "ok"
             /\ y \in Variants(ty.name)
             /\ Discriminant(ty.name, y) = WireDiscriminant
        ELSE /\ dec.st = "unknown"
             /\ y = dec.self

\* 0x010D is no ExtensionType: the destination, not the default, is kept
C7_Witness ==
    /\ ty = EnumT("ExtensionType")
    /\ dec.data = <<1, 13>>
    /\ dec.pos = 0
    /\ dec.st = "unknown"
    /\ dec.self # Default(ty)
    /\ y = dec.self

(***************************************************************************)
(* C8.  Encoding a tagged enumeration writes its discriminant as a         *)
(* big-endian unsigned integer of the enumeration's declared underlying    *)
(* width: 1 byte for the 8-bit enumerations and 2 bytes for the            *)
(* 16-bit-backed ExtensionType, the number of bytes its decode reads.      *)
(***************************************************************************)
C8_EnumEncode ==
    (ty.k = "enum" /\ enc.st = "ok") =>
        /\ Appended = BigEndian(Discriminant(ty.name, x), EnumRepr(ty.name))
        /\ Len(Appended) = EnumWireWidth(ty.name)

\* the 8-bit enumerations are written as one byte
NarrowEnumEncode ==
    (ty.k = "enum" /\ enc.st = "ok" /\ EnumRepr(ty.name) = 1) =>
        /\ Appended = BigEndian(Discriminant(ty.name, x), 1)
        /\ Len(Appended) = EnumWireWidth(ty.name)

(***************************************************************************)
(* Options.                                                                *)
(***************************************************************************)
\* the inner decode, on the cursor the last decode was given
InnerDecode(eofEnd, debug) ==
    FromNetworkBytes(ty.sub[1], dec.self[1],
                     [data |-> dec.data, pos |-> dec.pos,
                      eofEnd |-> eofEnd, debug |-> debug])

(***************************************************************************)
(* C9.  Decoding into an Option whose destination is absent is a no-op for *)
(* any cursor contents: it returns success, leaves the destination absent  *)
(* and the cursor position unchanged however many bytes remain; decoding   *)
(* into a present destination delegates to the inner decode and consumes   *)
(* exactly the inner value's bytes.                                        *)
(***************************************************************************)
C9_OptionDecode ==
    (ty.k = "option" /\ dec.st # "none") =>
        IF dec.self = <<>>
        THEN /\ dec.st = "ok"
             /\ y = <<>>
             /\ cur.pos = dec.pos
        ELSE /\ \E eofEnd \in BOOLEAN, debug \in BOOLEAN :
                   LET r == InnerDecode(eofEnd, debug)
                   IN  /\ dec.st = r.st
                       /\ y = <<r.self>>
                       /\ cur.pos = r.pos
             /\ (dec.st = "ok" /\ ty.sub[1] = U32) => Consumed = 4

\* four bytes are there to be read, and none is read into the absent Option
C9_Witness ==
    /\ ty = OptT(U32)
    /\ dec.self = <<>>
    /\ dec.data = <<18, 52, 86, 120>>
    /\ dec.st = "ok"
    /\ y = <<>>
    /\ cur.pos = 0

(***************************************************************************)
(* C10.  An absent Option has length 0 and its encode appends no bytes and *)
(* returns 0; a present Option has exactly the length of its inner value   *)
(* and its encode appends exactly the inner value's encoding, with no      *)
(* in-band presence marker.                                                *)
(***************************************************************************)
C10_OptionLengthEncode ==
    ty.k = "option" =>
        /\ len # -1 =>
              len = (IF x = <<>> THEN 0 ELSE TlsLen(ty.sub[1], x[1]))
        /\ enc.st # "none" =>
              IF x = <<>>
              THEN enc.st = "ok" /\ Appended = <<>> /\ enc.n = 0
              ELSE LET r == ToNetworkBytes(ty.sub[1], x[1], <<>>)
                   IN  enc.st = r.st /\ Appended = r.v /\ enc.n = r.n

\* Some(0x12345678u32): length 4, and the four bytes of the u32 alone
C10_Witness ==
    /\ ty = OptT(U32)
    /\ x = <<305419896>>
    /\ len = 4
    /\ enc.st = "ok"
    /\ Appended = <<18, 52, 86, 120>>
    /\ enc.n = 4

(***************************************************************************)
(* Structures.                                                             *)
(***************************************************************************)
\* the encodings of the first i fields, each on its own, one after the other
RECURSIVE FieldsEncoding(_, _, _)
FieldsEncoding(ts, xs, i) ==
    IF i = 0 THEN <<>>
    ELSE FieldsEncoding(ts, xs, i - 1) \o ToNetworkBytes(ts[i], xs[i], <<>>).v

\* the sum of the counts the first i fields return when encoded
RECURSIVE FieldsWritten(_, _, _)
FieldsWritten(ts, xs, i) ==
    IF i = 0 THEN 0
    ELSE FieldsWritten(ts, xs, i - 1) + ToNetworkBytes(ts[i], xs[i], <<>>).n

(***************************************************************************)
(* C11.  Encoding a composite structure with fields f1..fn appends the     *)
(* encoding of f1, then f2, ..., then fn to the same buffer in declared    *)
(* field order and returns the sum of the byte counts returned by the      *)
(* fields; {a: u16, b: u8} with a = 0x00FF, b = 0x20 encodes to exactly    *)
(* [0x00, 0xFF, 0x20].                                                     *)
(***************************************************************************)
C11_StructEncode ==
    (ty.k = "struct" /\ enc.st # "none") =>
        /\ enc.st = "ok"
        /\ Appended = FieldsEncoding(ty.sub, x, Len(ty.sub))
        /\ enc.n = FieldsWritten(ty.sub, x, Len(ty.sub))

C11_Witness ==
    /\ ty = StructA
    /\ x = <<255, 32>>
    /\ enc.st = "ok"
    /\ enc.before = 0
    /\ v = <<0, 255, 32>>
    /\ enc.n = 3

\* the decode of field i on its own, on the cursor of the last decode, from pos
FieldDecode(i, pos, eofEnd, debug) ==
    FromNetworkBytes(ty.sub[i], dec.self[i],
                     [data |-> dec.data, pos |-> pos, eofEnd |-> eofEnd, debug |-> debug])

\* where field i starts: where the field before it stopped
RECURSIVE FieldStart(_)
FieldStart(i) ==
    IF i = 1 THEN dec.pos
    ELSE FieldDecode(i - 1, FieldStart(i - 1), FALSE, FALSE).pos

(***************************************************************************)
(* C12.  Decoding a composite structure decodes into f1, then f2, ...,     *)
(* then fn in declared field order from one shared cursor, each field      *)
(* starting where the previous one stopped; after a successful decode the  *)
(* cursor has advanced by the sum of the bytes consumed by the fields.     *)
(***************************************************************************)
C12_StructDecode ==
    (ty.k = "struct" /\ dec.st = "ok") =>
        /\ \A i \in 1..Len(ty.sub) :
              LET r == FieldDecode(i, FieldStart(i), FALSE, FALSE)
              IN  r.st = "ok" /\ y[i] = r.self
        /\ cur.pos = FieldStart(Len(ty.sub) + 1)

\* [2,5,3,0,1,2,3] into {x: u16, y: u16, z: [u8; 3]}: 517, 768, [1,2,3]
C12_Witness ==
    /\ ty = StructXYZ
    /\ dec.data = <<2, 5, 3, 0, 1, 2, 3>>
    /\ dec.pos = 0
    /\ dec.st = "ok"
    /\ y = <<517, 768, <<1, 2, 3>>>>
    /\ cur.pos = 7

(***************************************************************************)
(* C13.  When field fk is the first field of a composite structure whose   *)
(* decode fails, the whole decode returns that failure at once: f1..f(k-1) *)
(* hold their newly decoded values, f(k+1)..fn are never decoded and keep  *)
(* their previous values, and no later field consumes cursor bytes.        *)
(***************************************************************************)
C13_StructDecodeFails ==
    (ty.k = "struct" /\ dec.st \notin {"none", "ok"}) =>
        \E k \in 1..Len(ty.sub), eofEnd \in BOOLEAN, debug \in BOOLEAN :
            LET fk == FieldDecode(k, FieldStart(k), eofEnd, debug)
            IN  /\ \A i \in 1..(k - 1) :
                      LET r == FieldDecode(i, FieldStart(i), FALSE, FALSE)
                      IN  r.st = "ok" /\ y[i] = r.self
                /\ fk.st = dec.st
                /\ \A j \in (k + 1)..Len(ty.sub) : y[j] = dec.self[j]
                /\ cur.pos = fk.pos

\* three bytes for {x: u16, y: u16, z: [u8; 3]}: x is new, y and z are the old ones
C13_Witness ==
    /\ ty = StructXYZ
    /\ dec.self = <<9, 9, <<9, 9, 9>>>>
    /\ dec.data = <<2, 5, 3>>
    /\ dec.pos = 0
    /\ dec.st = "eof"
    /\ y = <<517, 9, <<9, 9, 9>>>>

\* the length of a vector by the wire format: the prefix and the lengths of the
\* elements, whatever the length field holds
RECURSIVE ElementLens(_, _, _)
ElementLens(t, data, i) ==
    IF i = 0 THEN 0 ELSE ElementLens(t, data, i - 1) + TlsLen(t, data[i])

FieldLength(t, f) ==
    IF t.k = "vlv" THEN t.bytes + ElementLens(t.sub[1], f.data, Len(f.data))
    ELSE TlsLen(t, f)

RECURSIVE SumFieldLengths(_, _, _)
SumFieldLengths(ts, xs, i) ==
    IF i = 0 THEN 0 ELSE SumFieldLengths(ts, xs, i - 1) + FieldLength(ts[i], xs[i])

(***************************************************************************)
(* C14.  The length of a composite structure is the sum of the lengths of  *)
(* its fields taken in declared order (0 for a structure without fields),  *)
(* and a VariableLengthVector field contributes BYTES plus its data size   *)
(* whatever value its stored length field holds.                           *)
(* A vector of structures breaks it: see C2.                               *)
(***************************************************************************)
C14_StructLength ==
    (ty.k = "struct" /\ len # -1) =>
        len = SumFieldLengths(ty.sub, x, Len(ty.sub))

\* the length is the sum of what tls_len gives for the fields
StructLengthIsSum ==
    (ty.k = "struct" /\ len # -1) =>
        len = SumFieldLens(ty.sub, x, Len(ty.sub))

\* a vector of fixed-width scalars or arrays contributes BYTES plus its data
\* size, whatever its length field holds
StructCLength ==
    (ty = StructC /\ len # -1) => len = 2 + 1 + 2 * Len(x[2].data)

(***************************************************************************)
(* Scalars.                                                                *)
(***************************************************************************)
Scalar == ty.k \in {"u8", "u16", "u32"}

\* the bytes of the scalar at the head of what the last decode was given
ScalarBytes == SubSeq(dec.data, dec.pos + 1, dec.pos + WireWidth(ty))

(***************************************************************************)
(* C15.  Encoding an 8/16/32-bit scalar appends exactly 1/2/4 bytes,       *)
(* most-significant byte first, and returns that count, for every value of *)
(* the width; it never fails.                                              *)
(***************************************************************************)
C15_ScalarEncode ==
    (Scalar /\ enc.st # "none") =>
        /\ enc.st = "ok"
        /\ Appended = BigEndian(x, WireWidth(ty))
        /\ enc.n = WireWidth(ty)

\* 0x12345678 -> [0x12, 0x34, 0x56, 0x78]
C15_Witness ==
    /\ ty = U32
    /\ x = 305419896
    /\ enc.st = "ok"
    /\ enc.before = 0
    /\ v = <<18, 52, 86, 120>>
    /\ enc.n = 4

(***************************************************************************)
(* C16.  Decoding an 8/16/32-bit scalar from a cursor with at least W/8    *)
(* bytes remaining consumes exactly W/8 bytes, sets the destination to     *)
(* their big-endian value, and leaves the following bytes unread for the   *)
(* next decode.                                                            *)
(***************************************************************************)
C16_ScalarDecode ==
    (Scalar /\ dec.st # "none" /\ RemainingBefore >= WireWidth(ty)) =>
        /\ dec.st = "ok"
        /\ Consumed = WireWidth(ty)
        /\ \A i \in 1..WireWidth(ty) :
              (y \div Pow256(WireWidth(ty) - i)) % 256 = ScalarBytes[i]
        /\ y \div Pow256(WireWidth(ty) - 1) = ScalarBytes[1]

\* the second u16 of [0x12, 0x34, 0x56, 0x78] is read by the second decode
C16_Witness ==
    /\ ty = U16
    /\ dec.data = <<18, 52, 86, 120>>
    /\ nDec = 2
    /\ dec.pos = 2
    /\ dec.st = "ok"
    /\ y = 22136
    /\ cur.pos = 4

(***************************************************************************)
(* C17.  Decoding a scalar of width W from a cursor with fewer than W/8    *)
(* bytes remaining returns a truncated-input error, does not panic, reads  *)
(* no byte outside the underlying sequence, and leaves the destination     *)
(* value unchanged.                                                        *)
(***************************************************************************)
C17_ScalarTruncated ==
    (Scalar /\ dec.st # "none" /\ RemainingBefore < WireWidth(ty)) =>
        /\ dec.st = "eof"
        /\ y = dec.self
        /\ cur.pos >= dec.pos
        /\ cur.pos <= Len(dec.data)

\* a 32-bit scalar from a 3-byte cursor
C17_Witness ==
    /\ ty = U32
    /\ dec.data = <<18, 52, 86>>
    /\ dec.pos = 0
    /\ dec.self = 9
    /\ dec.st = "eof"
    /\ y = 9

(***************************************************************************)
(* Arrays.                                                                 *)
(***************************************************************************)
\* element i of the array decoded on its own from its place in the cursor
ArrayElementAt(i) ==
    FromNetworkBytes(ty.sub[1], dec.self[i],
                     [data |-> dec.data,
                      pos |-> dec.pos + (i - 1) * WireWidth(ty.sub[1]),
                      eofEnd |-> FALSE, debug |-> FALSE]).self

(***************************************************************************)
(* C18.  A fixed-size array of N elements of T is encoded as the N element *)
(* encodings in index order with no length prefix, returning the sum of    *)
(* the element byte counts, which equals its length N x element width;     *)
(* decoding fills indices 0..N-1 in order from the cursor.                 *)
(* An array of ExtensionType (C8) or of structures (C2) breaks it.         *)
(***************************************************************************)
C18_Array ==
    ty.k = "array" =>
        /\ enc.st # "none" =>
              /\ enc.st = "ok"
              /\ Appended = ElementsEncoding(ty.sub[1], x, ty.n)
              /\ enc.n = ElementsWritten(ty.sub[1], x, ty.n)
              /\ enc.n = ty.n * WireWidth(ty.sub[1])
        /\ len # -1 => len = ty.n * WireWidth(ty.sub[1])
        /\ dec.st = "ok" =>
              /\ \A i \in 1..ty.n : y[i] = ArrayElementAt(i)
              /\ Consumed = ty.n * WireWidth(ty.sub[1])

\* arrays of scalars are encoded, measured and decoded element by element
ArrayOfScalars ==
    (ty.k = "array" /\ ty.sub[1].k \in {"u8", "u16", "u32"}) =>
        /\ enc.st # "none" =>
              /\ enc.st = "ok"
              /\ Appended = ElementsEncoding(ty.sub[1], x, ty.n)
              /\ enc.n = ty.n * WireWidth(ty.sub[1])
        /\ len # -1 => len = ty.n * WireWidth(ty.sub[1])
        /\ dec.st = "ok" =>
              /\ \A i \in 1..ty.n : y[i] = ArrayElementAt(i)
              /\ Consumed = ty.n * WireWidth(ty.sub[1])

(***************************************************************************)
(* C19.  For a VariableLengthVector type whose BYTES parameter is not 1, 2 *)
(* or 3 (0, or 4 and above), both encode and decode fail fast with a panic *)
(* and never return success; encode fails before appending any byte to the *)
(* buffer.                                                                 *)
(***************************************************************************)
C19_InvalidBytes ==
    (ty.k = "vlv" /\ ty.bytes \notin {1, 2, 3}) =>
        /\ enc.st # "none" => (enc.st = "panic" /\ Len(v) = enc.before)
        /\ dec.st # "none" => dec.st = "panic"

\* BYTES = 4 and a vector that holds data: the encode panics, the buffer is empty
C19_Witness ==
    /\ ty = VlvT(U8, 0, 4)
    /\ x.data = <<52, 86, 120>>
    /\ enc.st = "panic"
    /\ v = <<>>

\* the values MIN is given
MinValues == 0..3

C21_Original ==
    (ty = EnumT("AlertDescription") /\ EnumDecoded /\ WireDiscriminant = 42) =>
        dec.st = "unknown"

\* 42 decodes to bad_certificate; 99 and 254, which are not declared, are the
\* values that yield the unknown-discriminant error
C21_AlertDescription42 ==
    (ty = EnumT("AlertDescription") /\ EnumDecoded) =>
        /\ WireDiscriminant = 42 => (dec.st = "ok" /\ y = "bad_certificate")
        /\ WireDiscriminant \in {99, 254} => (dec.st = "unknown" /\ y = dec.self)

C21_Witness ==
    /\ ty = EnumT("AlertDescription")
    /\ dec.data = <<42>>
    /\ dec.pos = 0
    /\ dec.self = "close_notify"
    /\ dec.st = "ok"
    /\ y = "bad_certificate"

\* the first-declared variant of each enumeration, as declared
FirstDeclared(name) ==
    CASE name = "ContentType" -> "change_cipher_spec"
      [] name = "HandshakeType" -> "hello_request"
      [] name = "AlertLevel" -> "warning"
      [] name = "AlertDescription" -> "close_notify"
      [] name = "ExtensionType" -> "server_name"
      [] name = "Foo" -> "X"

C23_ToU24 ==
    (wire = "u24" /\ nEnc = 1) =>
        /\ Len(v) = 3
        /\ \A i \in 1..3 : v[i] \in 0..255
        /\ v[1] * 65536 + v[2] * 256 + v[3] = x % 16777216
        /\ x = 31500 => v = <<0, 123, 12>>

\* 75235 -> [0x01, 0x25, 0xE3]
C23_Witness ==
    /\ wire = "u24"
    /\ nEnc = 1
    /\ x = 75235
    /\ v = <<1, 37, 227>>

(***************************************************************************)
(* C24.  The cursor is forward-only: across any sequence of decode         *)
(* operations (successful or failing) on one cursor, the read position     *)
(* never decreases and never exceeds the length of the underlying byte     *)
(* sequence, and a successful decode never re-reads bytes consumed by an   *)
(* earlier decode.                                                         *)
(***************************************************************************)
C24_CursorForward ==
    [][nDec' = nDec + 1 =>
          /\ cur'.data = cur.data
          /\ dec'.pos = cur.pos
          /\ cur'.pos >= cur.pos
          /\ cur'.pos <= Len(cur.data)]_vars

\* a u16 is read from three bytes, then a second one fails on the byte left
C24_Witness ==
    /\ ty = U16
    /\ dec.data = <<18, 52, 86>>
    /\ nDec = 2
    /\ dec.pos = 2
    /\ dec.st = "eof"
    /\ cur.pos \in {2, 3}

(***************************************************************************)
(* C25.  Encoding is append-only and leaves the instance untouched: after  *)
(* to_network_bytes the buffer is its previous contents followed by        *)
(* exactly the returned number of new bytes, the encoded instance is       *)
(* unchanged, and encoding the same instance again appends the same bytes  *)
(* again.                                                                  *)
(***************************************************************************)
C25_AppendOnly ==
    [][(nEnc' = nEnc + 1 /\ enc'.st = "ok") =>
          /\ Len(v') = Len(v) + enc'.n
          /\ SubSeq(v', 1, Len(v)) = v
          /\ x' = x
          /\ enc.st = "ok" =>
                SubSeq(v', Len(v) + 1, Len(v')) = SubSeq(v, enc.before + 1, Len(v))]_vars

\* struct C encoded twice into the same buffer
C25_Witness ==
    /\ ty = StructC
    /\ nEnc = 2
    /\ enc.st = "ok"
    /\ enc.before = 7
    /\ enc.n = 7
    /\ v = <<0, 255, 4, 0, 0, 1, 1, 0, 255, 4, 0, 0, 1, 1>>

\* the last decode, had it been into a default instance
FreshDecode ==
    FromNetworkBytes(ty, Default(ty),
                     [data |-> dec.data, pos |-> dec.pos,
                      eofEnd |-> FALSE, debug |-> FALSE])

(***************************************************************************)
(* C26.  Decoding into the same VariableLengthVector instance several      *)
(* times in succession accumulates: after k successful decodes data is the *)
(* concatenation, in order, of the elements read by all k decodes, while   *)
(* length holds only the prefix read by the last decode; decode never      *)
(* clears or replaces elements already held.                               *)
(***************************************************************************)
C26_VlvAccumulates ==
    (ty.k = "vlv" /\ dec.st \notin {"none", "panic"}) =>
        /\ Len(y.data) >= Len(dec.self.data)
        /\ SubSeq(y.data, 1, Len(dec.self.data)) = dec.self.data
        /\ dec.st = "ok" =>
              /\ y.data = dec.self.data \o FreshDecode.self.data
              /\ y.length = FreshDecode.self.length
              /\ RemainingBefore >= ty.bytes => y.length = BeValue(Prefix)

\* [1, 0x34] then [2, 0x56, 0x78]: three elements, and the length 2
C26_Witness ==
    /\ ty = VlvT(U8, 1, 1)
    /\ dec.data = <<1, 52, 2, 86, 120>>
    /\ nDec = 2
    /\ dec.self = [length |-> 1, data |-> <<52>>]
    /\ dec.st = "ok"
    /\ y = [length |-> 2, data |-> <<52, 86, 120>>]

\* the elements a Vec<T> decode should read: those the remaining bytes hold
VecElements == RemainingBefore \div SizeOf(ty.sub[1])

(***************************************************************************)
(* C27.  Decoding a bare Vec<T> from a cursor at any read position         *)
(* succeeds, appends floor(remaining bytes / size_of(T)) elements and      *)
(* leaves the cursor at the end of those bytes; in particular              *)
(* ServerNameList, whose last field is a Vec<u8> after other fields,       *)
(* decodes successfully from its own encoding.                             *)
(* The count of elements is taken from the whole underlying sequence, so   *)
(* the decode fails at any position but the start.                         *)
(***************************************************************************)
C27_VecDecode ==
    /\ (ty.k = "vec" /\ dec.st # "none") =>
          /\ dec.st = "ok"
          /\ Len(y) = Len(dec.self) + VecElements
          /\ SubSeq(y, 1, Len(dec.self)) = dec.self
          /\ cur.pos = dec.pos + VecElements * SizeOf(ty.sub[1])
    /\ (ty = ServerNameList /\ RoundTripDone) => (dec.st = "ok" /\ y = x)

\* from the start of the cursor the count is the right one
VecDecodeAtStart ==
    (ty.k = "vec" /\ dec.st # "none" /\ dec.pos = 0) =>
        /\ dec.st = "ok"
        /\ Len(y) = Len(dec.self) + VecElements
        /\ cur.pos = VecElements * SizeOf(ty.sub[1])

\* the length prefix the last encode wrote, as a number
WrittenPrefix == BeValue(SubSeq(Appended, 1, ty.bytes))

(***************************************************************************)
(* C28.  The length prefix written by VariableLengthVector encode is the   *)
(* stored length reduced modulo 256^BYTES: for every length below          *)
(* 256^BYTES the prefix decodes back to the same length, and for a length  *)
(* of 256^BYTES or more encode reports no error and silently writes only   *)
(* the low-order BYTES bytes, so the prefix on the wire differs from the   *)
(* stored length.                                                          *)
(***************************************************************************)
C28_PrefixModulo ==
    (ty.k = "vlv" /\ ty.bytes \in {1, 2, 3} /\ enc.st # "none") =>
        /\ enc.st = "ok"
        /\ WrittenPrefix = x.length % Pow256(ty.bytes)
        /\ x.length >= Pow256(ty.bytes) => WrittenPrefix # x.length
        /\ (wire = "encoded" /\ nDec = 1 /\ dec.pos = 0 /\ dec.st # "none") =>
              /\ y.length = x.length % Pow256(ty.bytes)
              /\ x.length < Pow256(ty.bytes) => y.length = x.length

\* length = 300 with BYTES = 1: the prefix byte is 44, and 44 is decoded back
C28_Witness ==
    /\ ty = VlvT(U8, 1, 1)
    /\ x = [length |-> 300, data |-> <<7>>]
    /\ enc.st = "ok"
    /\ v = <<44, 7>>
    /\ wire = "encoded"
    /\ nDec = 1
    /\ dec.st # "none"
    /\ y.length = 44

\* the bytes the payload of the record takes when encoded on its own
RecordPayload == ToNetworkBytes(ty.sub[2], x[2], <<>>).v

\* set_length was called on the record
LengthSet == wire = "record" /\ len # -1

(***************************************************************************)
(* C29.  After RecordLayer::set_length, header.length equals               *)
(* data.tls_len() reduced modulo 2^16, the other header fields and data    *)
(* are unchanged, and for any payload shorter than 65536 bytes             *)
(* header.length equals the number of bytes that encoding data appends, so *)
(* the encoded record is the 5 header bytes followed by exactly            *)
(* header.length payload bytes.                                            *)
(* What tls_len returns is not what encoding appends (C2, C8), so the      *)
(* header announces a length the payload does not have.                    *)
(***************************************************************************)
C29_SetLength ==
    LengthSet =>
        /\ x[1][3] = TlsLen(ty.sub[2], x[2]) % 65536
        /\ x[1][1] = y0[1][1]
        /\ x[1][2] = y0[1][2]
        /\ x[2] = y0[2]
        /\ enc.st = "ok" =>
              /\ x[1][3] = Len(RecordPayload)
              /\ Len(Appended) = 5 + x[1][3]
              /\ Appended = <<22, 3, 1>> \o BigEndian(x[1][3], 2) \o RecordPayload

\* set_length stores tls_len of the payload, and touches nothing else
SetLengthStoresTlsLen ==
    LengthSet =>
        /\ x[1][3] = TlsLen(ty.sub[2], x[2]) % 65536
        /\ x = [y0 EXCEPT ![1][3] = x[1][3]]
        /\ enc.st = "ok" =>
              Appended = <<22, 3, 1>> \o BigEndian(x[1][3], 2) \o RecordPayload

\* the elements the last decode appended to the vector
ElementsAppended == Len(y.data) - Len(dec.self.data)

\* the length prefix was read whole and announces more bytes than remain after it
PrefixOverruns ==
    /\ RemainingBefore >= ty.bytes
    /\ BeValue(Prefix) > RemainingBefore - ty.bytes

(***************************************************************************)
(* C30.  Every decode call on a finite cursor terminates with success or   *)
(* an error: a VariableLengthVector decode performs at most                *)
(* floor(length / size_of(T)) element decodes, and when the wire-supplied  *)
(* prefix announces more bytes than remain it stops with an error at the   *)
(* first element that cannot be read, having appended only the elements    *)
(* that were fully available.                                              *)
(* The count of elements is length / size_of(T), which for a structure is  *)
(* not its size on the wire (C2): a prefix that announces more bytes than  *)
(* remain can be decoded with success.                                     *)
(***************************************************************************)
C30_DecodeTerminates ==
    /\ dec.st \in {"none", "ok", "eof", "unknown", "panic"}
    /\ (ty.k = "vlv" /\ ty.bytes \in {1, 2, 3} /\ dec.st # "none") =>
          /\ dec.st # "panic"
          /\ ElementsAppended <= y.length \div SizeOf(ty.sub[1])
          /\ PrefixOverruns =>
                /\ dec.st # "ok"
                /\ dec.st = "eof" =>
                      ElementsAppended =
                          (RemainingBefore - ty.bytes) \div WireWidth(ty.sub[1])

\* the decode of a vector ends, after at most floor(length / size_of(T)) elements,
\* and with an error when those elements take more bytes than remain
VlvDecodeBounded ==
    /\ dec.st \in {"none", "ok", "eof", "unknown", "panic"}
    /\ (ty.k = "vlv" /\ ty.bytes \in {1, 2, 3} /\ dec.st # "none") =>
          /\ dec.st # "panic"
          /\ ElementsAppended <= y.length \div SizeOf(ty.sub[1])
          /\ (RemainingBefore >= ty.bytes
                /\ AnnouncedBytes > RemainingBefore - ty.bytes) =>
                /\ dec.st # "ok"
                /\ dec.st = "eof" =>
                      ElementsAppended =
                          (RemainingBefore - ty.bytes) \div WireWidth(ty.sub[1])

=============================================================================
